---- MODULE Spec2Model ----
(***************************************************************************)
(* Model of the decision-graph engine of baca2PackageManager               *)
(* (judge_manager.py): JudgeManager's graph, its start node and the        *)
(* operations on them.                                                     *)
(*                                                                         *)
(* A Python object is a record [obj, name, cls]: obj is the object's       *)
(* identity (what `is` compares), name is JudgeNodeBase._id (what __eq__   *)
(* and __hash__ compare), cls is the class that isinstance() tests.        *)
(* A dict is a function whose DOMAIN is its key set.                       *)
(***************************************************************************)
EXTENDS Integers, Sequences, FiniteSets, TLC

VARIABLES graph,        \* JudgeManager.graph : dict[node, dict[verdict, node]]
          start_node,   \* JudgeManager._start_node
          last,         \* the last call made on the manager, and its outcome
          current,      \* the caller's traversal variable (test_send_receive)
          verdicts,     \* verdicts the caller has advanced with, in order
          visited       \* nodes the traversal has returned, in order

vars == <<graph, start_node, last, current, verdicts, visited>>

----------------------------------------------------------------------------
(* Bounds of the model *)

\* most edges a graph explored by Spec holds
MaxEdges == 1
\* most advance calls of one traversal explored by ScenarioSpec
MaxWalk == 5
\* most edges of an adjacency that IntegritySpec gives to from_dict
MaxDictEdges == 3
\* most edges a graph explored by RemovalSpec holds
MaxRemovalEdges == 2

----------------------------------------------------------------------------
(* Values *)

JudgeVerdict == {"OK", "FAIL", "INCONCLUSIVE"}

\* Python's None
None == [obj |-> "None", name |-> "", cls |-> "NoneType"]

\* a str object holding a node name (advance accepts one)
Str(s) == [obj |-> "str", name |-> s, cls |-> "str"]

\* the node objects of the test suite's setUp
NodeA == [obj |-> "a", name |-> "a", cls |-> "JudgeNode"]
NodeB == [obj |-> "b", name |-> "b", cls |-> "JudgeNode"]
NodeEnd == [obj |-> "end", name |-> "END", cls |-> "EndNode"]
\* another object named END, of an evaluation-node class
NodeEndAlias == [obj |-> "end2", name |-> "END", cls |-> "JudgeNode"]

\* the further nodes of the tests' setUp
NodeA2 == [obj |-> "a2", name |-> "a2", cls |-> "JudgeNode"]
NodeC == [obj |-> "c", name |-> "c", cls |-> "JudgeNode"]

\* the node objects Spec passes to the manager
Nodes == {NodeA, NodeEnd, NodeEndAlias}
Names == {n.name : n \in Nodes}

\* the positional arguments the callers pass to send
SendArgs == {<<>>, <<"True">>}

\* isinstance(node, EndNode)
IsEndNode(node) == node.cls = "EndNode"

\* isinstance(node, str)
IsStr(node) == node.cls = "str"

\* JudgeNodeBase.__eq__ : names are compared, after the isinstance test
NodeEq(x, y) == y.cls \in {"JudgeNode", "EndNode"} /\ x.name = y.name

\* the empty dict
EmptyDict == [x \in {} |-> None]

\* `node in d` for a dict d keyed by nodes: __hash__ and __eq__ decide
Contains(d, node) == \E k \in DOMAIN d : NodeEq(k, node)

\* the key of d that `d[node]` resolves to
KeyOf(d, node) == CHOOSE k \in DOMAIN d : NodeEq(k, node)

\* dict.get(key): the value or None
DictGet(d, key) == IF key \in DOMAIN d THEN d[key] ELSE None

\* a dict without the keys in ks
DictWithout(d, ks) == [x \in DOMAIN d \ ks |-> d[x]]

\* outcomes of a call: what it raised (or "none"), the graph and start node
\* it leaves, and the value it returned
Returned(g, s, value) == [exc |-> "none", graph |-> g, start |-> s, ret |-> value]
Raised(e, g, s) == [exc |-> e, graph |-> g, start |-> s, ret |-> None]

----------------------------------------------------------------------------
(* JudgeManager's operations, each as the outcome of one call on a manager *)
(* whose graph is g and whose start node is s                              *)

\* JudgeManager.nodes
nodes(g) == DOMAIN g

\* JudgeManager.get_node_by_name
get_node_by_name(g, s, name) ==
    IF \E node \in nodes(g) : node.name = name
    THEN Returned(g, s, CHOOSE node \in nodes(g) : node.name = name)
    ELSE Raised("JudgeNodeError", g, s)

\* set_start_node without the membership test
set_start_node_unchecked(g, s, node) == Returned(g, node, None)

\* JudgeManager.set_start_node
set_start_node(g, s, node) ==
    IF ~Contains(g, node)
    THEN Raised("KeyError", g, s)
    ELSE Returned(g, node, None)

\* JudgeManager.get_start_node
get_start_node(g, s) ==
    IF s = None
    THEN Raised("JudgeNodeError", g, s)
    ELSE Returned(g, s, s)

\* add_node testing membership by object identity instead of by name
add_node_by_identity(g, s, node) ==
    IF node \in DOMAIN g
    THEN Raised("JudgeNodeError", g, s)
    ELSE Returned((node :> EmptyDict) @@ g, s, None)

\* JudgeManager.add_node
add_node(g, s, node) ==
    IF Contains(g, node)
    THEN Raised("JudgeNodeError", g, s)
    ELSE Returned((node :> EmptyDict) @@ g, s, None)

\* add_connection keeping an edge already labelled with_verdict
add_connection_keep(g, s, from_node, to_node, with_verdict) ==
    IF IsEndNode(from_node)
    THEN Raised("ResourceWarning", g, s)
    ELSE IF ~Contains(g, from_node)
    THEN Raised("KeyError", g, s)
    ELSE IF ~Contains(g, to_node)
    THEN Raised("KeyError", g, s)
    ELSE Returned([g EXCEPT ![KeyOf(g, from_node)] = @ @@ (with_verdict :> to_node)],
                  s, None)

\* add_connection accepting a target that is not registered
add_connection_forward(g, s, from_node, to_node, with_verdict) ==
    IF IsEndNode(from_node)
    THEN Raised("ResourceWarning", g, s)
    ELSE IF ~Contains(g, from_node)
    THEN Raised("KeyError", g, s)
    ELSE Returned([g EXCEPT ![KeyOf(g, from_node)] = (with_verdict :> to_node) @@ @],
                  s, None)

\* add_connection without the EndNode test
add_connection_from_end(g, s, from_node, to_node, with_verdict) ==
    IF ~Contains(g, from_node)
    THEN Raised("KeyError", g, s)
    ELSE IF ~Contains(g, to_node)
    THEN Raised("KeyError", g, s)
    ELSE Returned([g EXCEPT ![KeyOf(g, from_node)] = (with_verdict :> to_node) @@ @],
                  s, None)

\* add_connection storing the edge before it looks to_node up
add_connection_store_first(g, s, from_node, to_node, with_verdict) ==
    IF IsEndNode(from_node)
    THEN Raised("ResourceWarning", g, s)
    ELSE IF ~Contains(g, from_node)
    THEN Raised("KeyError", g, s)
    ELSE LET stored == [g EXCEPT ![KeyOf(g, from_node)] = (with_verdict :> to_node) @@ @]
         IN  IF ~Contains(g, to_node)
             THEN Raised("KeyError", stored, s)
             ELSE Returned(stored, s, None)

\* JudgeManager.add_connection
add_connection(g, s, from_node, to_node, with_verdict) ==
    IF IsEndNode(from_node)
    THEN Raised("ResourceWarning", g, s)
    ELSE IF ~Contains(g, from_node)
    THEN Raised("KeyError", g, s)
    ELSE IF ~Contains(g, to_node)
    THEN Raised("KeyError", g, s)
    ELSE Returned([g EXCEPT ![KeyOf(g, from_node)] = (with_verdict :> to_node) @@ @],
                  s, None)

\* remove_node returning quietly when the node is not registered
remove_node_missing_ok(g, s, node) ==
    IF ~Contains(g, node)
    THEN Returned(g, s, None)
    ELSE LET rest == DictWithout(g, {KeyOf(g, node)})
         IN  Returned([key \in DOMAIN rest |->
                          DictWithout(rest[key],
                                      {a \in DOMAIN rest[key] : rest[key][a] = node})],
                      s, None)

\* JudgeManager.remove_node
remove_node(g, s, node) ==
    IF ~Contains(g, node)
    THEN Raised("KeyError", g, s)
    ELSE LET rest == DictWithout(g, {KeyOf(g, node)})
         IN  Returned([key \in DOMAIN rest |->
                          DictWithout(rest[key],
                                      {a \in DOMAIN rest[key] : rest[key][a] = node})],
                      s, None)

\* JudgeManager.remove_connection_by_node
remove_connection_by_node(g, s, from_node, to_node) ==
    IF ~Contains(g, from_node)
    THEN Raised("KeyError", g, s)
    ELSE LET key == KeyOf(g, from_node)
             adj_list == g[key]
             tmp == {k \in DOMAIN adj_list : adj_list[k] = to_node}
         IN  IF tmp # {}
             THEN Returned([g EXCEPT ![key] = DictWithout(adj_list, tmp)], s, None)
             ELSE Raised("KeyError", g, s)

\* remove_connection_by_verdict deleting every edge of from_node
remove_connection_by_verdict_clear(g, s, from_node, verdict) ==
    IF ~Contains(g, from_node)
    THEN Raised("KeyError", g, s)
    ELSE LET key == KeyOf(g, from_node)
         IN  IF verdict \notin DOMAIN g[key]
             THEN Raised("KeyError", g, s)
             ELSE Returned([g EXCEPT ![key] = EmptyDict], s, None)

\* JudgeManager.remove_connection_by_verdict
remove_connection_by_verdict(g, s, from_node, verdict) ==
    IF ~Contains(g, from_node)
    THEN Raised("KeyError", g, s)
    ELSE LET key == KeyOf(g, from_node)
         IN  IF verdict \notin DOMAIN g[key]
             THEN Raised("KeyError", g, s)
             ELSE Returned([g EXCEPT ![key] = DictWithout(@, {verdict})], s, None)

\* advance without the EndNode test, staying on the node when no edge has the verdict
advance_stay(g, s, node, verdict) ==
    LET found == get_node_by_name(g, s, node.name)
    IN  IF IsStr(node) /\ found.exc # "none"
        THEN found
        ELSE LET n == IF IsStr(node) THEN found.ret ELSE node
             IN  IF ~Contains(g, n)
                 THEN Raised("KeyError", g, s)
                 ELSE IF verdict \in DOMAIN g[KeyOf(g, n)]
                 THEN Returned(g, s, g[KeyOf(g, n)][verdict])
                 ELSE Returned(g, s, n)

\* advance deleting the edge it follows
advance_consume(g, s, node, verdict) ==
    LET found == get_node_by_name(g, s, node.name)
    IN  IF IsStr(node) /\ found.exc # "none"
        THEN found
        ELSE LET n == IF IsStr(node) THEN found.ret ELSE node
             IN  IF IsEndNode(n)
                 THEN Raised("EndNodeError", g, s)
                 ELSE IF ~Contains(g, n)
                 THEN Raised("KeyError", g, s)
                 ELSE Returned([g EXCEPT ![KeyOf(g, n)] = DictWithout(@, {verdict})], s,
                               DictGet(g[KeyOf(g, n)], verdict))

\* JudgeManager.advance
advance(g, s, node, verdict) ==
    LET found == get_node_by_name(g, s, node.name)
    IN  IF IsStr(node) /\ found.exc # "none"
        THEN found
        ELSE LET n == IF IsStr(node) THEN found.ret ELSE node
             IN  IF IsEndNode(n)
                 THEN Raised("EndNodeError", g, s)
                 ELSE IF ~Contains(g, n)
                 THEN Raised("KeyError", g, s)
                 ELSE Returned(g, s, DictGet(g[KeyOf(g, n)], verdict))

\* node.start(*args) of the nodes' classes: EndNode.start returns None, the start
\* of an evaluation node returns a value of its own making
node_start(node, args) ==
    IF IsEndNode(node) THEN None ELSE [obj |-> node.obj, name |-> "started", cls |-> "Any"]

\* send calling start before it looks the node up
send_unchecked(g, s, node, args) ==
    [exc |-> IF Contains(g, node) THEN "none" ELSE "KeyError", graph |-> g, start |-> s,
     ret |-> IF Contains(g, node) THEN node_start(node, args) ELSE None,
     calls |-> << <<"start", node, args>> >>]

\* JudgeManager.send; calls lists the methods of nodes that the call invoked,
\* each as <<method, node, args>>
send(g, s, node, args) ==
    IF ~Contains(g, node)
    THEN [exc |-> "KeyError", graph |-> g, start |-> s, ret |-> None, calls |-> <<>>]
    ELSE [exc |-> "none", graph |-> g, start |-> s, ret |-> node_start(node, args),
          calls |-> << <<"start", node, args>> >>]

\* the orders in which a dict with key set keys can list its keys
Orders(keys) ==
    {o \in [1..Cardinality(keys) -> keys] : \A i, j \in DOMAIN o : o[i] = o[j] => i = j}

\* the visit matrix without its diagonal
visit_matrix_edges_only(g, node_list) ==
    [i \in DOMAIN node_list, j \in DOMAIN node_list |->
        \E v \in DOMAIN g[node_list[i]] : NodeEq(g[node_list[i]][v], node_list[j])]

\* the visit matrix _floyd_warshall starts from: row i, column j is
\* `j in self.graph[i].values() or i is j`
visit_matrix(g, node_list) ==
    [i \in DOMAIN node_list, j \in DOMAIN node_list |->
        \/ \E v \in DOMAIN g[node_list[i]] : NodeEq(g[node_list[i]][v], node_list[j])
        \/ node_list[i] = node_list[j]]

\* the innermost loop of _floyd_warshall, from column j of row i on: it rewrites
\* entry [i][j] of the matrix in place
RECURSIVE floyd_warshall_j(_, _, _, _)
floyd_warshall_j(m, k, i, j) ==
    IF <<i, j>> \notin DOMAIN m
    THEN m
    ELSE floyd_warshall_j([m EXCEPT ![i, j] = m[i, j] \/ (m[i, k] /\ m[k, j])], k, i, j + 1)

\* the middle loop of _floyd_warshall, from row i on
RECURSIVE floyd_warshall_i(_, _, _)
floyd_warshall_i(m, k, i) ==
    IF <<i, k>> \notin DOMAIN m
    THEN m
    ELSE floyd_warshall_i(floyd_warshall_j(m, k, i, 1), k, i + 1)

\* the loops of _floyd_warshall with the outer loop making its first pass only
RECURSIVE floyd_warshall_first_pass(_, _)
floyd_warshall_first_pass(m, k) ==
    IF <<k, k>> \notin DOMAIN m \/ k > 1
    THEN m
    ELSE floyd_warshall_first_pass(floyd_warshall_i(m, k, 1), k + 1)

\* the three nested loops of _floyd_warshall, from the k-th pass of the outer
\* loop on; k, i and j range over the rows and columns of the matrix
RECURSIVE floyd_warshall_loops(_, _)
floyd_warshall_loops(m, k) ==
    IF <<k, k>> \notin DOMAIN m
    THEN m
    ELSE floyd_warshall_loops(floyd_warshall_i(m, k, 1), k + 1)

\* JudgeManager._floyd_warshall, node_list being self.nodes in the dict's order
_floyd_warshall(g, node_list) ==
    LET m == floyd_warshall_loops(visit_matrix(g, node_list), 1)
    IN  [node \in DOMAIN g |->
            LET index == CHOOSE i \in DOMAIN node_list : node_list[i] = node
            IN  {node_list[i] : i \in {x \in DOMAIN node_list : m[index, x]}}]

\* JudgeGraphIntegrityReport.__init__; each list is kept as the set of its members
JudgeGraphIntegrityReport(unreachable_nodes, cannot_reach_end, wrong_connections, has_end_nodes) ==
    [unreachable_nodes |-> unreachable_nodes, cannot_reach_end |-> cannot_reach_end,
     wrong_connections |-> wrong_connections, has_end_nodes |-> has_end_nodes]

\* no_errors without the test of wrong_connections
no_errors_reach_only(report) ==
    ~ \/ report.unreachable_nodes # {}
      \/ report.cannot_reach_end # {}
      \/ ~report.has_end_nodes

\* JudgeGraphIntegrityReport.no_errors
no_errors(report) ==
    ~ \/ report.unreachable_nodes # {}
      \/ report.cannot_reach_end # {}
      \/ report.wrong_connections # {}
      \/ ~report.has_end_nodes

\* check_graph_integrity: end_nodes
end_nodes(g) == {node \in nodes(g) : IsEndNode(node)}

\* unreachable listing the nodes that cannot reach the start node
unreachable_backwards(g, s, reach_list) ==
    {node \in nodes(g) : KeyOf(reach_list, s) \notin reach_list[node]}

\* check_graph_integrity: unreachable
unreachable(g, s, reach_list) == nodes(g) \ reach_list[KeyOf(reach_list, s)]

\* cannot_reach_end listing the nodes that do not reach every EndNode
cannot_reach_end_all(g, reach_list) ==
    {node \in nodes(g) : ~(end_nodes(g) \subseteq reach_list[node])}

\* check_graph_integrity: cannot_reach_end
cannot_reach_end(g, reach_list) ==
    {node \in nodes(g) : end_nodes(g) \cap reach_list[node] = {}}

\* wrong_connections asking for both complete pairs of labels
wrong_connections_both_pairs(g) ==
    {node \in nodes(g) :
        LET tmp == DOMAIN g[node]
        IN  ~ \/ ({"OK", "FAIL"} \subseteq tmp /\ {"OK", "INCONCLUSIVE"} \subseteq tmp)
              \/ IsEndNode(node)}

\* wrong_connections accepting a node once it has OK or FAIL and INCONCLUSIVE
wrong_connections_other_pair(g) ==
    {node \in nodes(g) :
        LET tmp == DOMAIN g[node]
        IN  ~ \/ {"OK", "FAIL"} \subseteq tmp
              \/ {"OK", "INCONCLUSIVE"} \subseteq tmp
              \/ {"FAIL", "INCONCLUSIVE"} \subseteq tmp
              \/ IsEndNode(node)}

\* check_graph_integrity: wrong_connections
wrong_connections(g) ==
    {node \in nodes(g) :
        LET tmp == DOMAIN g[node]
        IN  ~ \/ {"OK", "FAIL"} \subseteq tmp
              \/ {"OK", "INCONCLUSIVE"} \subseteq tmp
              \/ IsEndNode(node)}

\* check_graph_integrity reading a start node that is not set as "every node
\* is unreachable"
check_graph_integrity_no_start(g, s, node_list) ==
    LET reach_list == _floyd_warshall(g, node_list)
    IN  IF s # None /\ ~Contains(reach_list, s)
        THEN Raised("KeyError", g, s)
        ELSE Returned(g, s, JudgeGraphIntegrityReport(
                 IF s = None THEN nodes(g) ELSE unreachable(g, s, reach_list),
                 cannot_reach_end(g, reach_list),
                 wrong_connections(g),
                 Cardinality(end_nodes(g)) # 0))

\* JudgeManager.check_graph_integrity
check_graph_integrity(g, s, node_list) ==
    LET reach_list == _floyd_warshall(g, node_list)
    IN  IF ~Contains(reach_list, s)
        THEN Raised("KeyError", g, s)
        ELSE Returned(g, s, JudgeGraphIntegrityReport(
                 unreachable(g, s, reach_list),
                 cannot_reach_end(g, reach_list),
                 wrong_connections(g),
                 Cardinality(end_nodes(g)) # 0))

\* the first loop of from_dict, from the i-th key of dct on: add_node on `out`
RECURSIVE from_dict_nodes(_, _, _)
from_dict_nodes(out, order, i) ==
    IF i > Len(order) \/ out.exc # "none"
    THEN out
    ELSE from_dict_nodes(add_node(out.graph, out.start, order[i]), order, i + 1)

\* dct.items() with each adj_list.items() inside it, as <<from_node, verdict>>
\* pairs, for the keys of dct from the i-th on
RECURSIVE from_dict_items(_, _, _)
from_dict_items(dct, order, i) ==
    IF i > Len(order)
    THEN <<>>
    ELSE LET labels == CHOOSE o \in Orders(DOMAIN dct[order[i]]) : TRUE
         IN  [j \in DOMAIN labels |-> <<order[i], labels[j]>>]
                 \o from_dict_items(dct, order, i + 1)

\* the second loop of from_dict, from the i-th item on: add_connection on `out`
RECURSIVE from_dict_edges(_, _, _, _)
from_dict_edges(out, dct, items, i) ==
    IF i > Len(items) \/ out.exc # "none"
    THEN out
    ELSE from_dict_edges(add_connection(out.graph, out.start, items[i][1],
                                        dct[items[i][1]][items[i][2]], items[i][2]),
                         dct, items, i + 1)

\* from_dict in one pass over dct, from its i-th key on: each key is added and
\* its edges are connected before the next key is added
RECURSIVE from_dict_key_by_key(_, _, _, _)
from_dict_key_by_key(out, dct, order, i) ==
    IF i > Len(order) \/ out.exc # "none"
    THEN out
    ELSE LET added == add_node(out.graph, out.start, order[i])
         IN  from_dict_key_by_key(
                 from_dict_edges(added, dct, from_dict_items(dct, <<order[i]>>, 1), 1),
                 dct, order, i + 1)

\* from_dict without its separate first loop
from_dict_one_pass(order, dct, start) ==
    LET out == from_dict_key_by_key(Returned(EmptyDict, None, None), dct, order, 1)
    IN  IF out.exc # "none"
        THEN out
        ELSE set_start_node(out.graph, out.start, start)

\* JudgeManager.from_dict, order being the order of dct's keys; the outcome
\* holds the graph and start node of `out`
from_dict(order, dct, start) ==
    LET out == from_dict_edges(from_dict_nodes(Returned(EmptyDict, None, None), order, 1),
                               dct, from_dict_items(dct, order, 1), 1)
    IN  IF out.exc # "none"
        THEN out
        ELSE set_start_node(out.graph, out.start, start)

\* the objects a manager refers to: its keys, its edges' targets, its start node
objects(g, s) ==
    DOMAIN g \cup {g[k][v] : <<k, v>> \in {kv \in (DOMAIN g) \X JudgeVerdict : kv[2] \in DOMAIN g[kv[1]]}}
             \cup (IF s = None THEN {} ELSE {s})

\* JudgeManager.serialise: pickle.dumps writes every object once, in a memo,
\* with its class and its state (the name), and writes the dict and the start
\* node as references into the memo (0 for None)
serialise(g, s) ==
    LET memo == CHOOSE o \in Orders(objects(g, s)) : TRUE
        ref(x) == CHOOSE i \in DOMAIN memo : memo[i] = x
    IN  [memo |-> [i \in DOMAIN memo |-> [name |-> memo[i].name, cls |-> memo[i].cls]],
         graph |-> {<<ref(k), {<<v, ref(g[k][v])>> : v \in DOMAIN g[k]}>> : k \in DOMAIN g},
         start_node |-> IF s = None THEN 0 ELSE ref(s)]

\* the identities of the objects that pickle.loads creates, by place in the memo
Unpickled == <<"new 1", "new 2", "new 3", "new 4", "new 5", "new 6">>

\* JudgeManager.unpack: pickle.loads creates one new object for every entry of
\* the memo and builds the dict and the start node from the references; the
\* outcome holds the graph and start node of the new manager
unpack(binary_data) ==
    LET new(i) == [obj |-> Unpickled[i], name |-> binary_data.memo[i].name,
                   cls |-> binary_data.memo[i].cls]
        item(i) == CHOOSE kv \in binary_data.graph : kv[1] = i
    IN  Returned([k \in {new(kv[1]) : kv \in binary_data.graph} |->
                     LET adj_list == item(CHOOSE i \in DOMAIN binary_data.memo : new(i) = k)[2]
                     IN  [v \in {e[1] : e \in adj_list} |->
                             new((CHOOSE e \in adj_list : e[1] = v)[2])]],
                 IF binary_data.start_node = 0 THEN None ELSE new(binary_data.start_node),
                 None)

----------------------------------------------------------------------------
(* The state machine: one action per call on the manager *)

\* JudgeManager.__init__, and a caller that has not started a traversal
Init ==
    /\ graph = EmptyDict
    /\ start_node = None
    /\ last = [op |-> "__init__", node |-> None, to |-> None, verdict |-> "",
               exc |-> "none", ret |-> None, old |-> None, dct |-> EmptyDict,
               args |-> <<>>, calls |-> <<>>]
    /\ current = None
    /\ verdicts = <<>>
    /\ visited = <<>>

\* the edge labelled verdict that leaves the node registered under node's name
EdgeOf(g, node, verdict) ==
    IF Contains(g, node) THEN DictGet(g[KeyOf(g, node)], verdict) ELSE None

\* the manager takes the outcome r of the call op(node, to, verdict); last keeps
\* the call, its outcome and, for add_connection, the edge it found in place
\* (its dct is the adjacency given to from_dict)
Call(op, node, to, verdict, r) ==
    /\ graph' = r.graph
    /\ start_node' = r.start
    /\ last' = [op |-> op, node |-> node, to |-> to, verdict |-> verdict,
                exc |-> r.exc, ret |-> r.ret,
                old |-> IF op = "add_connection" THEN EdgeOf(graph, node, verdict) ELSE None,
                dct |-> EmptyDict, args |-> <<>>, calls |-> <<>>]

AddNode(node) ==
    /\ Call("add_node", node, None, "", add_node(graph, start_node, node))
    /\ UNCHANGED <<current, verdicts, visited>>

AddConnection(from_node, to_node, with_verdict) ==
    /\ Call("add_connection", from_node, to_node, with_verdict,
            add_connection(graph, start_node, from_node, to_node, with_verdict))
    /\ UNCHANGED <<current, verdicts, visited>>

RemoveNode(node) ==
    /\ Call("remove_node", node, None, "", remove_node(graph, start_node, node))
    /\ UNCHANGED <<current, verdicts, visited>>

RemoveConnectionByNode(from_node, to_node) ==
    /\ Call("remove_connection_by_node", from_node, to_node, "",
            remove_connection_by_node(graph, start_node, from_node, to_node))
    /\ UNCHANGED <<current, verdicts, visited>>

RemoveConnectionByVerdict(from_node, verdict) ==
    /\ Call("remove_connection_by_verdict", from_node, None, verdict,
            remove_connection_by_verdict(graph, start_node, from_node, verdict))
    /\ UNCHANGED <<current, verdicts, visited>>

SetStartNode(node) ==
    /\ Call("set_start_node", node, None, "", set_start_node(graph, start_node, node))
    /\ UNCHANGED <<current, verdicts, visited>>

GetStartNode ==
    /\ Call("get_start_node", None, None, "", get_start_node(graph, start_node))
    /\ UNCHANGED <<current, verdicts, visited>>

GetNodeByName(name) ==
    /\ Call("get_node_by_name", Str(name), None, "",
            get_node_by_name(graph, start_node, name))
    /\ UNCHANGED <<current, verdicts, visited>>

Advance(node, verdict) ==
    /\ Call("advance", node, None, verdict, advance(graph, start_node, node, verdict))
    /\ UNCHANGED <<current, verdicts, visited>>

\* manager.send(node, *args)
Send(node, args) ==
    LET r == send(graph, start_node, node, args)
    IN  /\ graph' = r.graph
        /\ start_node' = r.start
        /\ last' = [op |-> "send", node |-> node, to |-> None, verdict |-> "",
                    exc |-> r.exc, ret |-> r.ret, old |-> None, dct |-> EmptyDict,
                    args |-> args, calls |-> r.calls]
        /\ UNCHANGED <<current, verdicts, visited>>

\* report = manager.check_graph_integrity(), the dict listing its keys in order
CheckGraphIntegrity(order) ==
    /\ Call("check_graph_integrity", None, None, "",
            check_graph_integrity(graph, start_node, order))
    /\ UNCHANGED <<current, verdicts, visited>>

\* manager = JudgeManager.from_dict(dct, start), dct listing its keys in order;
\* when from_dict raises, the caller is left with the manager it had
FromDict(order, dct, start) ==
    LET r == from_dict(order, dct, start)
    IN  /\ graph' = IF r.exc = "none" THEN r.graph ELSE graph
        /\ start_node' = IF r.exc = "none" THEN r.start ELSE start_node
        /\ last' = [op |-> "from_dict", node |-> None, to |-> start, verdict |-> "",
                    exc |-> r.exc, ret |-> None, old |-> None, dct |-> dct,
                    args |-> <<>>, calls |-> <<>>]
        /\ UNCHANGED <<current, verdicts, visited>>

\* manager = JudgeManager.unpack(manager.serialise()); last keeps the graph
\* and the start node of the manager that was serialised
RoundTrip ==
    LET r == unpack(serialise(graph, start_node))
    IN  /\ graph' = r.graph
        /\ start_node' = r.start
        /\ last' = [op |-> "unpack", node |-> None, to |-> None, verdict |-> "",
                    exc |-> r.exc, ret |-> None, old |-> start_node, dct |-> graph,
                    args |-> <<>>, calls |-> <<>>]
        /\ UNCHANGED <<current, verdicts, visited>>

\* the number of edges of g
EdgeCount(g) == Cardinality({<<k, v>> \in (DOMAIN g) \X JudgeVerdict : v \in DOMAIN g[k]})

Next ==
    \/ \E node \in Nodes : AddNode(node)
    \/ \E from_node \in Nodes, to_node \in Nodes, v \in JudgeVerdict :
          /\ AddConnection(from_node, to_node, v)
          /\ EdgeCount(graph') <= MaxEdges
    \/ \E node \in Nodes : RemoveNode(node)
    \/ \E from_node \in Nodes, to_node \in Nodes : RemoveConnectionByNode(from_node, to_node)
    \/ \E from_node \in Nodes, v \in JudgeVerdict : RemoveConnectionByVerdict(from_node, v)
    \/ \E node \in Nodes : SetStartNode(node)
    \/ GetStartNode
    \/ \E name \in Names : GetNodeByName(name)
    \/ \E node \in Nodes \cup {Str(name) : name \in Names}, v \in JudgeVerdict :
          Advance(node, v)
    \/ \E order \in Orders(DOMAIN graph) : CheckGraphIntegrity(order)
    \/ \E node \in Nodes, args \in SendArgs : Send(node, args)

Spec == Init /\ [][Next]_vars

----------------------------------------------------------------------------
(* test_send_receive: a caller builds the graph of a, b and END, sets the  *)
(* start node and then walks the graph with advance                        *)

\* the nodes the test registers
ScenarioNodes == {NodeA, NodeB, NodeEnd}

\* the edges the traversal scenario connects, as <<from, to, verdict>>
ScenarioEdges == {<<NodeA, NodeB, "OK">>, <<NodeA, NodeA, "FAIL">>,
                  <<NodeB, NodeEnd, "OK">>, <<NodeB, NodeA, "FAIL">>}

\* the caller is still building: it has not fetched the start node yet
Building == current = None /\ visited = <<>>

\* current = manager.get_start_node()
WalkStart ==
    LET r == get_start_node(graph, start_node)
    IN  /\ Building
        /\ Call("get_start_node", None, None, "", r)
        /\ current' = IF r.exc = "none" THEN r.ret ELSE current
        /\ UNCHANGED <<verdicts, visited>>

\* current = manager.advance(current, verdict)
WalkAdvance(verdict) ==
    LET r == advance(graph, start_node, current, verdict)
    IN  /\ current # None
        /\ Len(verdicts) < MaxWalk
        /\ Call("advance", current, None, verdict, r)
        /\ IF r.exc = "none"
           THEN /\ current' = r.ret
                /\ verdicts' = Append(verdicts, verdict)
                /\ visited' = Append(visited, r.ret)
           ELSE UNCHANGED <<current, verdicts, visited>>

ScenarioNext ==
    \/ \E node \in ScenarioNodes : Building /\ AddNode(node)
    \/ \E e \in ScenarioEdges : Building /\ AddConnection(e[1], e[2], e[3])
    \/ \E node \in ScenarioNodes : Building /\ SetStartNode(node)
    \/ WalkStart
    \/ \E v \in JudgeVerdict : WalkAdvance(v)

ScenarioSpec == Init /\ [][ScenarioNext]_vars

----------------------------------------------------------------------------
(* A caller builds a manager with from_dict from an adjacency over a, b    *)
(* and END, removes nodes from it and checks the graph's integrity         *)

\* the nodes of the adjacencies
AdjacencyNodes == {NodeA, NodeB, NodeEnd}

\* the values of an adjacency: dicts from verdicts to nodes
AdjLists == UNION {[labels -> AdjacencyNodes] : labels \in SUBSET JudgeVerdict}

\* the adjacencies given to from_dict: dicts from nodes to such dicts
Adjacencies ==
    {dct \in UNION {[keys -> AdjLists] : keys \in SUBSET AdjacencyNodes} :
        EdgeCount(dct) <= MaxDictEdges}

IntegrityNext ==
    \/ /\ last.op = "__init__"
       /\ \E dct \in Adjacencies : \E order \in Orders(DOMAIN dct) :
             \E start \in AdjacencyNodes : FromDict(order, dct, start)
    \/ \E node \in AdjacencyNodes \cup {NodeEndAlias} : RemoveNode(node)
    \/ \E order \in Orders(DOMAIN graph) : CheckGraphIntegrity(order)

IntegritySpec == Init /\ [][IntegrityNext]_vars

----------------------------------------------------------------------------
(* The graph of the tests' _from_dict_func: a caller builds it with        *)
(* from_dict, adds and removes its edges and checks the graph's integrity  *)

\* the keys of the dict `default`, in the order it lists them
ScenarioAOrder == <<NodeA, NodeA2, NodeB, NodeC, NodeEnd>>

\* the dict `default` of _from_dict_func
ScenarioADict ==
    (NodeA :> ("OK" :> NodeA2 @@ "FAIL" :> NodeA)) @@
    (NodeA2 :> ("OK" :> NodeB)) @@
    (NodeB :> ("OK" :> NodeC @@ "FAIL" :> NodeA)) @@
    (NodeC :> ("OK" :> NodeEnd @@ "FAIL" :> NodeB)) @@
    (NodeEnd :> EmptyDict)

\* the edges the caller connects: those of `default` and a2 -FAIL-> a
ScenarioAEdges ==
    {<<n, ScenarioADict[n][v], v>> : <<n, v>> \in
        {<<n, v>> \in (DOMAIN ScenarioADict) \X JudgeVerdict : v \in DOMAIN ScenarioADict[n]}}
    \cup {<<NodeA2, NodeA, "FAIL">>}

ScenarioANext ==
    \/ last.op = "__init__" /\ FromDict(ScenarioAOrder, ScenarioADict, NodeA)
    \/ \E e \in ScenarioAEdges : last.op # "__init__" /\ AddConnection(e[1], e[2], e[3])
    \/ \E e \in ScenarioAEdges :
          last.op # "__init__" /\ RemoveConnectionByVerdict(e[1], e[3])
    \/ last.op # "__init__" /\ CheckGraphIntegrity(ScenarioAOrder)

ScenarioASpec == Init /\ [][ScenarioANext]_vars

----------------------------------------------------------------------------
(* A caller builds a manager with from_dict, removes nodes from it and     *)
(* replaces it by the manager unpacked from its serialisation              *)

SerialiseNext ==
    \/ /\ last.op = "__init__"
       /\ \E dct \in Adjacencies : \E order \in Orders(DOMAIN dct) :
             \E start \in AdjacencyNodes : FromDict(order, dct, start)
    \/ \E node \in AdjacencyNodes \cup {NodeEndAlias} : RemoveNode(node)
    \/ last.op # "__init__" /\ RoundTrip

SerialiseSpec == Init /\ [][SerialiseNext]_vars

----------------------------------------------------------------------------
(* A caller builds a manager with from_dict from an adjacency over a, b    *)
(* and END whose edges may lead to the other object named END, checks its  *)
(* integrity and, when the report has no errors, walks the graph from the  *)
(* start node along its edges                                              *)

\* the objects the edges of these adjacencies lead to
TraversalTargets == AdjacencyNodes \cup {NodeEndAlias}

\* the values of these adjacencies
TraversalLists == UNION {[labels -> TraversalTargets] : labels \in SUBSET JudgeVerdict}

\* the adjacencies: a and b with edges, END with none
TraversalAdjacencies ==
    {dct @@ ends : dct \in {d \in UNION {[keys -> TraversalLists] : keys \in SUBSET {NodeA, NodeB}} :
                               EdgeCount(d) <= MaxDictEdges},
                   ends \in {EmptyDict, NodeEnd :> EmptyDict}}

\* current = manager.get_start_node(), once the report has no errors
TraverseStart ==
    LET r == get_start_node(graph, start_node)
    IN  /\ last.op = "check_graph_integrity" /\ last.exc = "none" /\ no_errors(last.ret)
        /\ Call("get_start_node", None, None, "", r)
        /\ current' = r.ret
        /\ UNCHANGED <<verdicts, visited>>

\* current = manager.advance(current, verdict), for a verdict that labels an
\* edge of current, until current is an EndNode
TraverseEdge(node, verdict) ==
    LET r == advance(graph, start_node, current, verdict)
    IN  /\ current = node
        /\ current # None /\ ~IsEndNode(current)
        /\ r.exc = "none" /\ r.ret # None
        /\ Call("advance", current, None, verdict, r)
        /\ current' = r.ret
        /\ UNCHANGED <<verdicts, visited>>

TraversalNext ==
    \/ /\ last.op = "__init__"
       /\ \E dct \in TraversalAdjacencies : \E order \in Orders(DOMAIN dct) :
             \E start \in AdjacencyNodes : FromDict(order, dct, start)
    \/ /\ last.op = "from_dict" /\ last.exc = "none"
       /\ \E order \in Orders(DOMAIN graph) : CheckGraphIntegrity(order)
    \/ TraverseStart
    \/ \E node \in TraversalTargets, v \in JudgeVerdict : TraverseEdge(node, v)

\* the caller does start the walk, and an edge that could be taken again and
\* again is taken
TraversalSpec ==
    /\ Init /\ [][TraversalNext]_vars
    /\ WF_vars(TraverseStart)
    /\ \A node \in TraversalTargets : \A v \in JudgeVerdict : SF_vars(TraverseEdge(node, v))

----------------------------------------------------------------------------
(* A caller builds a graph of up to MaxRemovalEdges edges over a and the   *)
(* two objects named END, and removes nodes and edges from it              *)

RemovalNext ==
    \/ \E node \in Nodes : AddNode(node)
    \/ \E from_node \in Nodes, to_node \in Nodes, v \in JudgeVerdict :
          /\ AddConnection(from_node, to_node, v)
          /\ EdgeCount(graph') <= MaxRemovalEdges
    \/ \E node \in Nodes : RemoveNode(node)
    \/ \E from_node \in Nodes, to_node \in Nodes : RemoveConnectionByNode(from_node, to_node)
    \/ \E from_node \in Nodes, v \in JudgeVerdict : RemoveConnectionByVerdict(from_node, v)
    \/ \E node \in Nodes : SetStartNode(node)

RemovalSpec == Init /\ [][RemovalNext]_vars

----------------------------------------------------------------------------
(* Properties *)

\* the node registered under node's name is an EndNode
RegisteredAsEnd(g, node) == \E k \in DOMAIN g : k.name = node.name /\ IsEndNode(k)

\* a node is registered under node's name, and it is no EndNode
RegisteredAsJudge(g, node) == \E k \in DOMAIN g : k.name = node.name /\ ~IsEndNode(k)

\* the node registered under node's name
Registered(g, node) == CHOOSE k \in DOMAIN g : k.name = node.name

\* some edge of g leads to a node equal to node
Targeted(g, node) == \E k \in DOMAIN g : \E v \in DOMAIN g[k] : NodeEq(g[k][v], node)

\* C1: every registered terminal node (EndNode) has an empty outgoing-edge
\* map, whatever node objects the calls were given.
C1_TerminalHasNoEdges ==
    \A k \in DOMAIN graph : IsEndNode(k) => DOMAIN graph[k] = {}

\* C2: the target of every edge stored in any node's edge map is a
\* registered member of the graph.
C2_EdgeTargetsRegistered ==
    \A k \in DOMAIN graph : \A v \in DOMAIN graph[k] : Contains(graph, graph[k][v])

\* C3: the start node is either unset or a registered member of the graph.
C3_StartNodeRegistered ==
    start_node = None \/ Contains(graph, start_node)

\* C4: a successful remove_node(n), n given as the registered object or as any
\* other object of the same name, leaves n absent from nodes() and leaves
\* no edge with target n in any remaining node's edge map.
C4_RemoveNodeCascades ==
    (last.op = "remove_node" /\ last.exc = "none")
        => ~Contains(graph, last.node) /\ ~Targeted(graph, last.node)

\* C5: after a successful add_connection(from, to, v) on a registered
\* non-terminal from, advance(from, v) returns to, also when the call replaced
\* an edge to another target, and from holds exactly one edge labelled v.
C5_AddConnectionThenAdvance ==
    (last.op = "add_connection" /\ last.exc = "none"
                                /\ RegisteredAsJudge(graph, last.node))
        => /\ advance(graph, start_node, last.node, last.verdict).exc = "none"
           /\ advance(graph, start_node, last.node, last.verdict).ret = last.to
           /\ Cardinality({v \in DOMAIN graph[Registered(graph, last.node)] :
                              v = last.verdict}) = 1

\* C5's case: the add_connection replaced an edge that led to another node
C5_Witness ==
    /\ last.op = "add_connection" /\ last.exc = "none"
    /\ RegisteredAsJudge(graph, last.node)
    /\ last.old # None /\ last.old # last.to
    /\ advance(graph, start_node, last.node, last.verdict).ret = last.to

\* C6: advance(n, verdict), n a node or a node name, raises EndNodeError
\* whenever the node registered under n's name is an EndNode; when that node
\* is no EndNode it returns, without raising, the target of its edge labelled
\* verdict, or None when it has no such edge.
C6_AdvanceOutcome ==
    last.op = "advance"
        => /\ RegisteredAsEnd(graph, last.node) => last.exc = "EndNodeError"
           /\ RegisteredAsJudge(graph, last.node)
                 => /\ last.exc = "none"
                    /\ last.ret = DictGet(graph[Registered(graph, last.node)],
                                          last.verdict)

\* no two registered nodes share a name
UniqueNames == \A x \in DOMAIN graph : \A y \in DOMAIN graph : x.name = y.name => x = y

\* what a step that is an add_node call does
C7_AddNodeStep ==
    last'.op = "add_node"
        => IF \E k \in DOMAIN graph : k.name = last'.node.name
           THEN last'.exc = "JudgeNodeError" /\ graph' = graph
           ELSE /\ last'.exc = "none"
                /\ DOMAIN graph' = DOMAIN graph \cup {last'.node}
                /\ graph'[last'.node] = EmptyDict
                /\ \A k \in DOMAIN graph : graph'[k] = graph[k]

\* C7: add_node(n) raises JudgeNodeError when a node of the same name is
\* registered, whatever n's class; otherwise it registers n with an empty edge
\* map; and at all times no two registered nodes share a name.
C7_AddNode == []UniqueNames /\ [][C7_AddNodeStep]_vars

\* C7's case: an object of another class, named like a registered node, was
\* rejected, and a node registered by add_node is in the graph
C7_Witness ==
    /\ last.op = "add_node" /\ last.exc = "JudgeNodeError"
    /\ last.node \notin DOMAIN graph
    /\ \E k \in DOMAIN graph : k.name = last.node.name /\ k.cls # last.node.cls

\* C8: add_connection(from, to, verdict) whose from is no EndNode raises
\* KeyError when to is not registered, and when from is not registered, and
\* creates no edge in either case.
C8_AddConnectionUnknownNode ==
    [][ (/\ last'.op = "add_connection"
         /\ ~IsEndNode(last'.node)
         /\ (~Contains(graph, last'.to) \/ ~Contains(graph, last'.node)))
            => last'.exc = "KeyError" /\ graph' = graph ]_vars

\* C8's case: a forward reference (from registered, to not) was refused
C8_Witness ==
    /\ last.op = "add_connection" /\ last.exc = "KeyError"
    /\ ~IsEndNode(last.node)
    /\ Contains(graph, last.node) /\ ~Contains(graph, last.to)
    /\ \A k \in DOMAIN graph : DOMAIN graph[k] = {}

\* C9: add_connection whose from argument is an EndNode raises and adds no
\* edge, whether or not the target is registered and whatever the verdict.
C9_AddConnectionFromEndNode ==
    [][ (last'.op = "add_connection" /\ IsEndNode(last'.node))
            => last'.exc = "ResourceWarning" /\ graph' = graph ]_vars

\* C9's case: both nodes are registered and the call from the EndNode failed
C9_Witness ==
    /\ last.op = "add_connection" /\ last.exc = "ResourceWarning"
    /\ last.node \in DOMAIN graph /\ IsEndNode(last.node)
    /\ Contains(graph, last.to)
    /\ DOMAIN graph[last.node] = {}

\* the graph of the traversal scenario: a -OK-> b, a -FAIL-> a, b -OK-> END,
\* b -FAIL-> a, END terminal
ScenarioGraph ==
    (NodeA :> (("OK" :> NodeB) @@ ("FAIL" :> NodeA)))
    @@ (NodeB :> (("OK" :> NodeEnd) @@ ("FAIL" :> NodeA)))
    @@ (NodeEnd :> EmptyDict)

\* the verdicts of the scenario's walk, and the nodes it is to visit
ScenarioVerdicts == <<"OK", "FAIL", "OK", "OK">>
ScenarioVisits == <<NodeB, NodeA, NodeB, NodeEnd>>

\* the walk so far follows the scenario's verdicts up to its i-th advance
FollowsScenario(i) ==
    /\ i <= Len(verdicts) /\ i <= Len(ScenarioVerdicts)
    /\ \A j \in 1..i : verdicts[j] = ScenarioVerdicts[j]

\* C10: in the scenario graph with start node a, the walk advance(a, OK),
\* advance(b, FAIL), advance(a, OK), advance(b, OK) visits b, a, b, END in
\* that order, and any advance from END raises EndNodeError and returns no node.
C10_TraversalOrder ==
    (graph = ScenarioGraph /\ start_node = NodeA /\ ~Building)
        => /\ \A i \in 1..Len(ScenarioVerdicts) :
                 FollowsScenario(i) => visited[i] = ScenarioVisits[i]
           /\ (last.op = "advance" /\ last.node = NodeEnd)
                 => last.exc = "EndNodeError" /\ last.ret = None /\ current = NodeEnd

\* C10's case: the whole walk was made and a further advance from END raised
C10_Witness ==
    /\ graph = ScenarioGraph /\ start_node = NodeA
    /\ verdicts = ScenarioVerdicts /\ visited = ScenarioVisits
    /\ last.op = "advance" /\ last.node = NodeEnd /\ last.exc = "EndNodeError"

----------------------------------------------------------------------------
(* Properties of the integrity check *)

\* the registered nodes that an edge of the registered node n leads to
Successors(g, n) == {m \in DOMAIN g : \E v \in DOMAIN g[n] : g[n][v].name = m.name}

\* the registered nodes reached from the nodes in seen by following edges
RECURSIVE Closure(_, _)
Closure(g, seen) ==
    LET more == seen \cup UNION {Successors(g, n) : n \in seen}
    IN  IF more = seen THEN seen ELSE Closure(g, more)

\* the registered nodes reachable from n by zero or more edges
Reachable(g, n) == Closure(g, {n})

\* the last call was check_graph_integrity and it returned a report
Reported == last.op = "check_graph_integrity" /\ last.exc = "none"

\* advance(n, v) on the current graph returns a node
Advances(n, v) ==
    /\ advance(graph, start_node, n, v).exc = "none"
    /\ advance(graph, start_node, n, v).ret # None

\* the non-terminal nodes reachable from the start node
ReachableJudges ==
    {n \in Reachable(graph, Registered(graph, start_node)) : ~IsEndNode(n)}

\* C11 as stated: when the report has no_errors, advance returns a next node
\* for every non-terminal node reachable from the start node and every verdict
\* of OK, FAIL and INCONCLUSIVE.
C11_NoErrorsNeverStrands ==
    (Reported /\ no_errors(last.ret))
        => \A n \in ReachableJudges : \A v \in JudgeVerdict : Advances(n, v)

\* C11 as amended: when the report has no_errors, advance returns a next node
\* for every non-terminal node reachable from the start node on OK and on at
\* least one of FAIL and INCONCLUSIVE.
C11_NoErrorsOnePair ==
    (Reported /\ no_errors(last.ret))
        => \A n \in ReachableJudges :
              Advances(n, "OK") /\ (Advances(n, "FAIL") \/ Advances(n, "INCONCLUSIVE"))

\* C11's case: a report with no_errors on a graph whose start node is no EndNode
C11_Witness ==
    /\ Reported /\ no_errors(last.ret)
    /\ ReachableJudges # {}
    /\ \E n \in ReachableJudges : \E v \in JudgeVerdict : ~Advances(n, v)

\* C12: whatever the order of the dict's keys, _floyd_warshall maps every
\* registered node to exactly the nodes reachable from it by zero or more edges.
C12_FloydWarshallIsReachability ==
    \A order \in Orders(DOMAIN graph) :
        _floyd_warshall(graph, order) = [n \in DOMAIN graph |-> Reachable(graph, n)]

\* C12's case: the check ran on a graph with a cycle through two nodes and a
\* node that is reached only through another node
C12_Witness ==
    /\ Reported
    /\ \E x \in DOMAIN graph : \E y \in DOMAIN graph \ {x} :
          y \in Successors(graph, x) /\ x \in Successors(graph, y)
    /\ \E x \in DOMAIN graph :
          Reachable(graph, x) \ (Successors(graph, x) \cup {x}) # {}

\* C13: on a graph whose start node is registered the check returns a report
\* whose unreachable_nodes are exactly the registered nodes not reachable from
\* the start node; the start node is never among them.
C13_UnreachableNodes ==
    (last.op = "check_graph_integrity" /\ Contains(graph, start_node))
        => /\ last.exc = "none"
           /\ last.ret.unreachable_nodes =
                 DOMAIN graph \ Reachable(graph, Registered(graph, start_node))
           /\ Registered(graph, start_node) \notin last.ret.unreachable_nodes

\* C13's case: a report that lists a node while another node than the start
\* node is reachable
C13_Witness ==
    /\ Reported
    /\ last.ret.unreachable_nodes # {}
    /\ Reachable(graph, Registered(graph, start_node)) # {Registered(graph, start_node)}

\* C14: the report's cannot_reach_end are exactly the registered nodes from
\* which no EndNode is reachable; no EndNode is listed, and every node is
\* listed when the graph has no EndNode.
C14_CannotReachEnd ==
    Reported
        => /\ last.ret.cannot_reach_end =
                 {n \in DOMAIN graph :
                     \A e \in Reachable(graph, n) : ~IsEndNode(e)}
           /\ \A n \in last.ret.cannot_reach_end : ~IsEndNode(n)
           /\ (\A n \in DOMAIN graph : ~IsEndNode(n))
                 => last.ret.cannot_reach_end = DOMAIN graph

\* C14's case: a graph with two EndNode-free nodes, one that reaches the
\* EndNode and one that does not
C14_Witness ==
    /\ Reported
    /\ last.ret.cannot_reach_end # {}
    /\ \E n \in DOMAIN graph \ last.ret.cannot_reach_end : ~IsEndNode(n)

\* the node has OK together with FAIL, or OK together with INCONCLUSIVE
HasCompletePair(g, n) ==
    "OK" \in DOMAIN g[n] /\ ("FAIL" \in DOMAIN g[n] \/ "INCONCLUSIVE" \in DOMAIN g[n])

\* C15: the report's wrong_connections are exactly the non-terminal nodes whose
\* labels hold neither OK with FAIL nor OK with INCONCLUSIVE; labels beyond one
\* complete pair do not make a node wrong and no EndNode is listed.
C15_WrongConnections ==
    Reported
        => /\ last.ret.wrong_connections =
                 {n \in DOMAIN graph : ~IsEndNode(n) /\ ~HasCompletePair(graph, n)}
           /\ \A n \in DOMAIN graph :
                 DOMAIN graph[n] = JudgeVerdict => n \notin last.ret.wrong_connections
           /\ \A n \in last.ret.wrong_connections : ~IsEndNode(n)

\* C15's case: one node has all three labels and is not listed, another is listed
C15_Witness ==
    /\ Reported
    /\ last.ret.wrong_connections # {}
    /\ \E n \in DOMAIN graph \ last.ret.wrong_connections :
          DOMAIN graph[n] = JudgeVerdict

\* C16: no_errors is true exactly when unreachable_nodes, cannot_reach_end and
\* wrong_connections are empty and has_end_nodes is true, and has_end_nodes is
\* true exactly when an EndNode is registered when the check runs.
C16_NoErrors ==
    Reported
        => /\ no_errors(last.ret) <=> /\ last.ret.unreachable_nodes = {}
                                      /\ last.ret.cannot_reach_end = {}
                                      /\ last.ret.wrong_connections = {}
                                      /\ last.ret.has_end_nodes
           /\ last.ret.has_end_nodes <=> \E n \in DOMAIN graph : IsEndNode(n)

\* C16's case: the only EndNode was removed (an edge still leads to its name)
\* and the report has has_end_nodes false
C16_Witness ==
    /\ Reported
    /\ ~last.ret.has_end_nodes /\ ~no_errors(last.ret)
    /\ \E n \in DOMAIN graph : \E v \in DOMAIN graph[n] :
          graph[n][v] = NodeEnd /\ ~Contains(graph, NodeEnd)

\* the graph of Scenario A with the edge a2 -FAIL-> a added
ScenarioAFixed == [ScenarioADict EXCEPT ![NodeA2] = ("OK" :> NodeB @@ "FAIL" :> NodeA)]

\* C17: on the graph of Scenario A with start node a the check reports
\* wrong_connections = {a2}, no unreachable node, no node that cannot reach the
\* end, has_end_nodes true and no_errors false; on that graph with a2 -FAIL-> a
\* added the check reports no_errors true.
C17_ScenarioA ==
    (Reported /\ start_node = NodeA)
        => /\ graph = ScenarioADict
                 => /\ last.ret = JudgeGraphIntegrityReport({}, {}, {NodeA2}, TRUE)
                    /\ ~no_errors(last.ret)
           /\ graph = ScenarioAFixed => no_errors(last.ret)

\* C17's case: the check ran after a2 -FAIL-> a was added to the graph of Scenario A
C17_Witness == Reported /\ start_node = NodeA /\ graph = ScenarioAFixed

\* C18 as stated: once set_start_node has succeeded, check_graph_integrity
\* returns a report and does not raise, whatever nodes were removed since.
C18_CheckNeverRaises ==
    (last.op = "check_graph_integrity" /\ start_node # None) => last.exc = "none"

\* C19: check_graph_integrity on a manager whose start node was never set
\* raises and returns no report, on an empty and on a non-empty graph.
C19_CheckWithoutStartNode ==
    (last.op = "check_graph_integrity" /\ start_node = None)
        => last.exc = "KeyError" /\ last.ret = None

\* C19's case: the check ran on registered nodes with no start node set
C19_Witness ==
    last.op = "check_graph_integrity" /\ start_node = None /\ DOMAIN graph # {}

\* every edge of dct leads to a key of dct
TargetsAreKeys(dct) == \A n \in DOMAIN dct : \A v \in DOMAIN dct[n] : dct[n][v] \in DOMAIN dct

\* the EndNode keys of dct have no edges
EndsAreEmpty(dct) == \A n \in DOMAIN dct : IsEndNode(n) => DOMAIN dct[n] = {}

\* C20: from_dict succeeds on every adjacency whose edge targets are keys,
\* whose EndNode keys have no edges and whose start is a key, whatever the
\* order of the keys, and then the graph is the adjacency and the start node is
\* start; from_dict fails when an edge target or the start is not a key.
C20_FromDict ==
    last.op = "from_dict"
        => /\ (TargetsAreKeys(last.dct) /\ EndsAreEmpty(last.dct) /\ last.to \in DOMAIN last.dct)
                 => last.exc = "none" /\ graph = last.dct /\ start_node = last.to
           /\ (~TargetsAreKeys(last.dct) \/ last.to \notin DOMAIN last.dct)
                 => last.exc # "none"

\* C20's case: from_dict built a graph with edges a -> b and b -> a, one of
\* which leads to a key that the adjacency lists later
C20_Witness ==
    /\ last.op = "from_dict" /\ last.exc = "none"
    /\ NodeA \in DOMAIN graph /\ NodeB \in DOMAIN graph
    /\ \E v \in DOMAIN graph[NodeA] : graph[NodeA][v] = NodeB
    /\ \E v \in DOMAIN graph[NodeB] : graph[NodeB][v] = NodeA

----------------------------------------------------------------------------
(* Properties of the removing operations *)

\* the calls that change the graph or the start node
Mutators ==
    {"add_node", "add_connection", "remove_node", "remove_connection_by_node",
     "remove_connection_by_verdict", "set_start_node"}

\* what a step that is a remove_node call does
C21_RemoveNodeStep ==
    last'.op = "remove_node"
        => /\ ~Contains(graph, last'.node) => last'.exc = "KeyError"
           /\ last'.exc # "none" => graph' = graph

\* C21: remove_node of a node that is not registered raises KeyError, and a
\* remove_node that raised has removed no node and no edge.
C21_RemoveNodeAbsent == [][C21_RemoveNodeStep]_vars

\* C21's case: remove_node raised on a graph that holds a node and an edge
C21_Witness ==
    last.op = "remove_node" /\ last.exc = "KeyError" /\ EdgeCount(graph) > 0

\* C22 as stated: after a successful remove_connection_by_node(from, to) no
\* edge of from leads to the node to.
C22_RemovesEveryEdgeTo ==
    (last.op = "remove_connection_by_node" /\ last.exc = "none")
        => \A v \in DOMAIN graph[Registered(graph, last.node)] :
              ~NodeEq(graph[Registered(graph, last.node)][v], last.to)

\* what a step that is a remove_connection_by_verdict call does
C23_RemoveByVerdictStep ==
    last'.op = "remove_connection_by_verdict"
        => IF Contains(graph, last'.node)
              /\ last'.verdict \in DOMAIN graph[Registered(graph, last'.node)]
           THEN /\ last'.exc = "none"
                /\ DOMAIN graph' = DOMAIN graph
                /\ start_node' = start_node
                /\ \A n \in DOMAIN graph :
                      /\ DOMAIN graph'[n] =
                            IF n = Registered(graph, last'.node)
                            THEN DOMAIN graph[n] \ {last'.verdict}
                            ELSE DOMAIN graph[n]
                      /\ \A v \in DOMAIN graph'[n] : graph'[n][v] = graph[n][v]
           ELSE last'.exc = "KeyError" /\ graph' = graph /\ start_node' = start_node

\* C23: remove_connection_by_verdict(from, verdict) removes the edge of from
\* with that label and nothing else: the other edges of from, the edges of the
\* other nodes, the nodes and the start node stay; it raises KeyError, changing
\* nothing, when from is not registered or has no edge with that label.
C23_RemoveByVerdict == [][C23_RemoveByVerdictStep]_vars

\* C23's case: the call removed one edge of a node and left it another
C23_Witness ==
    /\ last.op = "remove_connection_by_verdict" /\ last.exc = "none"
    /\ DOMAIN graph[Registered(graph, last.node)] # {}

\* what a step that is a raising call of a mutator does
C28_FailedMutatorStep ==
    (last'.op \in Mutators /\ last'.exc # "none")
        => graph' = graph /\ start_node' = start_node

\* C28: a call of add_node, add_connection, remove_node,
\* remove_connection_by_node, remove_connection_by_verdict or set_start_node
\* that raises leaves the nodes, every edge and the start node as they were.
C28_FailedMutatorChangesNothing == [][C28_FailedMutatorStep]_vars

\* C28's case: add_connection raised on a graph with an edge and a start node
C28_Witness ==
    /\ last.op = "add_connection" /\ last.exc = "KeyError"
    /\ Contains(graph, last.node) /\ EdgeCount(graph) > 0 /\ start_node # None

----------------------------------------------------------------------------
(* Properties of the start node, send and the reading operations *)

\* what a step does to the start node, and what get_start_node answers
C24_StartNodeStep ==
    /\ start_node' # start_node
          => last'.op = "set_start_node" /\ last'.exc = "none"
    /\ last'.op = "set_start_node"
          => IF Contains(graph, last'.node)
             THEN last'.exc = "none" /\ start_node' = last'.node
             ELSE last'.exc = "KeyError" /\ start_node' = start_node
    /\ last'.op = "get_start_node"
          => IF start_node = None
             THEN last'.exc = "JudgeNodeError"
             ELSE last'.exc = "none" /\ last'.ret = start_node

\* C24: the start node is None until a set_start_node call succeeds and
\* changes only by such a call; get_start_node raises JudgeNodeError while it is
\* None and returns it otherwise; set_start_node(n) raises KeyError and keeps the
\* previous start node when n is not registered, and makes n the start node
\* when it is.
C24_StartNode == (start_node = None) /\ [][C24_StartNodeStep]_vars

\* C24's case: get_start_node returned the node given to the last successful
\* set_start_node, which has been removed since
C24_Witness ==
    /\ last.op = "get_start_node" /\ last.exc = "none"
    /\ last.ret = start_node /\ ~Contains(graph, start_node)

\* what a step that is a send call does
C25_SendStep ==
    last'.op = "send"
        => IF Contains(graph, last'.node)
           THEN /\ last'.exc = "none"
                /\ last'.calls = << <<"start", last'.node, last'.args>> >>
                /\ last'.ret = node_start(last'.node, last'.args)
           ELSE /\ last'.exc = "KeyError"
                /\ last'.calls = <<>>
                /\ last'.ret = None

\* C25: send(n, args) raises KeyError without calling n.start when n is not
\* registered; otherwise it calls n.start(args) exactly once, calls no other
\* method of a node (so no receive, which makes the verdicts) and returns what
\* the call returned.
C25_Send == [][C25_SendStep]_vars

\* C25's case: send passed arguments to the start of a registered evaluation
\* node and returned its result
C25_Witness ==
    /\ last.op = "send" /\ last.exc = "none"
    /\ last.args # <<>> /\ last.ret # None

\* the calls that only read the manager
Readers ==
    {"advance", "send", "get_node_by_name", "get_start_node", "check_graph_integrity"}

\* what a step that is a call of a reader does
C27_ReaderStep ==
    /\ last'.op \in Readers => graph' = graph /\ start_node' = start_node
    /\ last'.op = "advance"
          => \A s \in Nodes \cup {None} :
                LET r == advance(graph', s, last'.node, last'.verdict)
                IN  r.exc = last'.exc /\ r.ret = last'.ret

\* C27: advance, send, get_node_by_name, get_start_node and
\* check_graph_integrity leave the nodes, every edge and the start node as
\* they were, whether they return or raise, and advance called again on the
\* graph it left, whatever the start node, gives the same outcome.
C27_ReadersChangeNothing == [][C27_ReaderStep]_vars

\* C27's case: advance followed an edge of a graph that has a start node
C27_Witness ==
    /\ last.op = "advance" /\ last.exc = "none" /\ last.ret # None
    /\ start_node # None

\* C29 as stated (its first part): a node that advance returns for a
\* registered non-terminal node is registered in the graph.
C29_AdvanceReturnsRegistered ==
    (last.op = "advance" /\ RegisteredAsJudge(graph, last.node)
                         /\ last.exc = "none" /\ last.ret # None)
        => Contains(graph, last.ret)

----------------------------------------------------------------------------
(* Properties of serialise and unpack *)

\* dict.__eq__ on two graphs: equal keys, and under equal keys equal labels
\* with equal targets, nodes being equal when their names are
GraphEq(g1, g2) ==
    /\ {k.name : k \in DOMAIN g1} = {k.name : k \in DOMAIN g2}
    /\ \A k1 \in DOMAIN g1 : \A k2 \in DOMAIN g2 :
          k1.name = k2.name
              => /\ DOMAIN g1[k1] = DOMAIN g2[k2]
                 /\ \A v \in DOMAIN g1[k1] : NodeEq(g1[k1][v], g2[k2][v])

\* the round trip kept the graph and the start node
RoundTripKeeps ==
    last.op = "unpack"
        => /\ last.exc = "none"
           /\ GraphEq(graph, last.dct)
           /\ IF last.old = None THEN start_node = None ELSE NodeEq(start_node, last.old)

\* C26 as stated: unpack(serialise(g)) has a graph equal to g's and a start
\* node equal to g's, and every edge target and the start node of the
\* restored manager is registered in the restored graph.
C26_RoundTrip ==
    last.op = "unpack"
        => /\ RoundTripKeeps
           /\ \A k \in DOMAIN graph : \A v \in DOMAIN graph[k] : Contains(graph, graph[k][v])
           /\ start_node # None => Contains(graph, start_node)

----------------------------------------------------------------------------
(* Properties of a traversal *)

\* C30 as stated: a traversal of a graph whose report has no errors, started
\* at the start node and advancing along existing edges, each edge being taken
\* if it can be taken again and again, eventually is at an EndNode.
C30_TraversalReachesEnd == (current # None) ~> IsEndNode(current)

====
